---- MODULE Spec2Model ----
(***************************************************************************)
(* CompactVector (src/src/compact_vector.rs): a vector of unsigned         *)
(* integers, each stored in `width` bits of an owned BitVector.            *)
(*                                                                         *)
(* The BitVector and util::needed_bits are not part of the source file;    *)
(* they are modelled from the collaborator contract of the specification   *)
(* (section 6): a growable bit sequence with get_bits / set_bits /         *)
(* push_bits, a capacity hint, and a word-array serialization.             *)
(***************************************************************************)
EXTENDS Integers, Sequences, FiniteSets, TLC

\* ---- bounds of the model ------------------------------------------------
MaxLen == 3      \* largest number of elements of a vector / input slice
MaxWidth == 1    \* largest width handed to new / with_capacity / with_len
MaxVal == 4      \* largest integer handed to set / push / from_slice
MaxCapa == 2     \* largest capacity hint handed to with_capacity

\* ---- program constants --------------------------------------------------
WORD_LEN == 64   \* bits of a BitVector word (64-bit target)
U64_BYTES == 8   \* size_of::<u64>()

Values == 0..MaxVal
Widths == 0..MaxWidth

RECURSIVE Pow2(_)
Pow2(n) == IF n = 0 THEN 1 ELSE 2 * Pow2(n - 1)

Max2(a, b) == IF a >= b THEN a ELSE b

\* ---- BitVector (collaborator) -------------------------------------------
\* A store is [bits: sequence of 0/1, capa: reserved bits].

\* BitVector::default(): no bits, nothing reserved.
BitVectorDefault == [bits |-> <<>>, capa |-> 0]

\* BitVector::with_capacity(n): no bits, n bits reserved.
BitVectorWithCapacity(n) == [bits |-> <<>>, capa |-> n]

\* BitVector::with_len(n): n zero bits.
BitVectorWithLen(n) == [bits |-> [i \in 1..n |-> 0], capa |-> n]

bit_length(bv) == Len(bv.bits)

\* bit i (0-based) of the integer v
BitOf(v, i) == (v \div Pow2(i)) % 2

\* get_bits(offset, width): bit 0 of the result is the bit at `offset`.
RECURSIVE get_bits_from(_, _, _)
get_bits_from(bv, offset, w) ==
    IF w = 0 THEN 0
    ELSE bv.bits[offset + 1] + 2 * get_bits_from(bv, offset + 1, w - 1)

get_bits(bv, offset, w) == get_bits_from(bv, offset, w)

\* set_bits(offset, value, width): overwrites `width` bits at `offset` with
\* the low `width` bits of value.
set_bits(bv, offset, value, w) ==
    [bv EXCEPT !.bits = [i \in 1..Len(bv.bits) |->
        IF i > offset /\ i <= offset + w
        THEN BitOf(value, i - offset - 1)
        ELSE bv.bits[i]]]

\* push_bits(value, width): appends the low `width` bits of value; the
\* reservation grows geometrically when it is exhausted.
push_bits(bv, value, w) ==
    LET n == Len(bv.bits) + w
    IN [bits |-> bv.bits \o [i \in 1..w |-> BitOf(value, i - 1)],
        capa |-> IF n > bv.capa THEN Max2(2 * bv.capa, n) ELSE bv.capa]

\* util::needed_bits(x): bits needed to represent x, at least one.
RECURSIVE needed_bits(_)
needed_bits(x) == IF x <= 1 THEN 1 ELSE 1 + needed_bits(x \div 2)

\* ---- little-endian u64 encoding -----------------------------------------
RECURSIVE LEBytes(_, _)
LEBytes(n, k) == IF k = 0 THEN <<>> ELSE <<n % 256>> \o LEBytes(n \div 256, k - 1)

write_u64(n) == LEBytes(n, U64_BYTES)

RECURSIVE read_u64(_)
read_u64(bs) == IF bs = <<>> THEN 0 ELSE Head(bs) + 256 * read_u64(Tail(bs))

\* number of words that hold n bits
words_for(n) == (n + WORD_LEN - 1) \div WORD_LEN

\* bit i (1-based) of the word array: stored bit, or zero padding
PaddedBit(bv, i) == IF i <= Len(bv.bits) THEN bv.bits[i] ELSE 0

RECURSIVE ByteAt(_, _, _)
ByteAt(bv, first, k) ==
    IF k = 0 THEN 0 ELSE PaddedBit(bv, first) + 2 * ByteAt(bv, first + 1, k - 1)

\* BitVector::serialize_into: word count, the words, the bit length.
BitVectorBytes(bv) ==
    LET nw == words_for(Len(bv.bits))
    IN write_u64(nw)
       \o [j \in 1..(nw * U64_BYTES) |-> ByteAt(bv, (j - 1) * 8 + 1, 8)]
       \o write_u64(Len(bv.bits))

\* byte count BitVector::serialize_into returns
BitVectorSerializedSize(bv) == U64_BYTES * (words_for(Len(bv.bits)) + 2)

\* BitVector::deserialize_from: returns the store and the bytes consumed.
BitVectorDeserialize(bs) ==
    LET nw == read_u64(SubSeq(bs, 1, U64_BYTES))
        wend == U64_BYTES + nw * U64_BYTES
        n == read_u64(SubSeq(bs, wend + 1, wend + U64_BYTES))
        byte(i) == bs[U64_BYTES + ((i - 1) \div 8) + 1]
    IN [bv |-> [bits |-> [i \in 1..n |-> BitOf(byte(i), (i - 1) % 8)],
                capa |-> nw * WORD_LEN],
        used |-> wend + U64_BYTES]

\* ---- CompactVector -------------------------------------------------------
\* A vector is [chunks: store, len, width].

\* #[derive(Default)]
CompactVectorDefault == [chunks |-> BitVectorDefault, len |-> 0, width |-> 0]

new(w) == [chunks |-> BitVectorDefault, len |-> 0, width |-> w]

\* with_capacity that sizes the vector instead of reserving
with_capacity_sized(capa, w) ==
    [chunks |-> BitVectorWithLen(capa * w), len |-> capa, width |-> w]

with_capacity(capa, w) ==
    [chunks |-> BitVectorWithCapacity(capa * w), len |-> 0, width |-> w]

with_len(n, w) == [chunks |-> BitVectorWithLen(n * w), len |-> n, width |-> w]

get(v, p) == get_bits(v.chunks, p * v.width, v.width)

\* set that adds the width to the position instead of multiplying
set_added_offset(v, p, x) ==
    [v EXCEPT !.chunks = set_bits(v.chunks, p + v.width, x, v.width)]

\* set that writes one bit more than the width
set_wide(v, p, x) ==
    [v EXCEPT !.chunks = set_bits(v.chunks, p * v.width, x, v.width + 1)]

set(v, p, x) == [v EXCEPT !.chunks = set_bits(v.chunks, p * v.width, x, v.width)]

\* push that forgets to count the element
push_uncounted(v, x) ==
    [v EXCEPT !.chunks = push_bits(v.chunks, x, v.width)]

\* push that counts the bits instead of the element
push_counting_bits(v, x) ==
    [v EXCEPT !.chunks = push_bits(v.chunks, x, v.width), !.len = v.len + v.width]

push(v, x) ==
    [v EXCEPT !.chunks = push_bits(v.chunks, x, v.width), !.len = v.len + 1]

len(v) == v.len

is_empty(v) == len(v) = 0

width(v) == v.width

\* ints.iter().max()
RECURSIVE SeqMax(_)
SeqMax(s) == IF Len(s) = 1 THEN s[1] ELSE Max2(Head(s), SeqMax(Tail(s)))

\* the loop of from_slice: cv.set(i, x) for the elements from index i on
RECURSIVE from_slice_loop(_, _, _)
from_slice_loop(v, s, i) ==
    IF i >= Len(s) THEN v ELSE from_slice_loop(set(v, i, s[i + 1]), s, i + 1)

\* from_slice that sizes the width by the first integer, not the largest
from_slice_first(s) ==
    from_slice_loop(with_len(Len(s), needed_bits(s[1])), s, 0)

\* from_slice that takes one bit more than needed
from_slice_wide(s) ==
    from_slice_loop(with_len(Len(s), needed_bits(SeqMax(s)) + 1), s, 0)

\* from_slice on a non-empty slice
from_slice(s) ==
    from_slice_loop(with_len(Len(s), needed_bits(SeqMax(s))), s, 0)

\* from_slice on an empty slice: max() is None and unwrap() panics
from_slice_panics(s) == s = <<>>

\* serialize_into that writes width before len
serialize_into_swapped(v) ==
    [bytes |-> BitVectorBytes(v.chunks) \o write_u64(v.width) \o write_u64(v.len),
     size |-> BitVectorSerializedSize(v.chunks) + U64_BYTES * 2]

\* serialize_into: the bytes written to the sink and the count returned
serialize_into(v) ==
    [bytes |-> BitVectorBytes(v.chunks) \o write_u64(v.len) \o write_u64(v.width),
     size |-> BitVectorSerializedSize(v.chunks) + U64_BYTES * 2]

deserialize_from(bs) ==
    LET r == BitVectorDeserialize(bs)
    IN [chunks |-> r.bv,
        len |-> read_u64(SubSeq(bs, r.used + 1, r.used + U64_BYTES)),
        width |-> read_u64(SubSeq(bs, r.used + U64_BYTES + 1, r.used + 2 * U64_BYTES))]

\* #[derive(PartialEq)]: BitVector equality compares the bits, not the
\* reservation
BitVectorEq(a, b) == a.bits = b.bits

CompactVectorEq(a, b) ==
    BitVectorEq(a.chunks, b.chunks) /\ a.len = b.len /\ a.width = b.width

\* the integers a vector holds, as the Debug view lists them
Ints(v) == [i \in 1..v.len |-> get(v, i - 1)]

\* ---- state --------------------------------------------------------------
VARIABLES
    cv,       \* the vector under test
    twin,     \* the same calls applied to a vector started from new(width)
    ctor,     \* constructor that built cv
    status,   \* "ok", "panic" (the call aborted), "undefined" (contract broken)
    op,       \* last call
    pos,      \* its position argument
    value,    \* its value argument
    ints,     \* the slice handed to from_slice
    ret,      \* value the last get returned
    bytes,    \* the sink serialize_into wrote
    size,     \* the count serialize_into returned
    other     \* the vector deserialize_from built

vars == <<cv, twin, ctor, status, op, pos, value, ints, ret, bytes, size, other>>

RECURSIVE SeqsUpTo(_)
SeqsUpTo(n) ==
    IF n = 0 THEN {<<>>}
    ELSE LET S == SeqsUpTo(n - 1)
         IN S \cup {Append(s, x) : s \in {t \in S : Len(t) = n - 1}, x \in Values}

NoCall ==
    /\ pos = 0 /\ value = 0 /\ ret = 0
    /\ bytes = <<>> /\ size = 0 /\ other = CompactVectorDefault

InitNew ==
    \E w \in Widths :
        /\ cv = new(w) /\ twin = new(w)
        /\ ctor = "new" /\ status = "ok" /\ ints = <<>>

InitWithCapacity ==
    \E n \in 0..MaxCapa, w \in Widths :
        /\ cv = with_capacity(n, w) /\ twin = new(w)
        /\ ctor = "with_capacity" /\ status = "ok" /\ ints = <<>>

InitWithLen ==
    \E n \in 0..MaxLen, w \in Widths :
        /\ cv = with_len(n, w) /\ twin = cv
        /\ ctor = "with_len" /\ status = "ok" /\ ints = <<>>

InitFromSlice ==
    \E s \in SeqsUpTo(MaxLen) :
        /\ ints = s
        /\ ctor = "from_slice"
        /\ IF from_slice_panics(s)
           THEN cv = CompactVectorDefault /\ status = "panic"
           ELSE cv = from_slice(s) /\ status = "ok"
        /\ twin = cv

Init ==
    /\ InitNew \/ InitWithCapacity \/ InitWithLen \/ InitFromSlice
    /\ op = ctor
    /\ NoCall

\* ---- calls --------------------------------------------------------------
\* the slice and the sink of earlier calls are gone
NoSink ==
    ints' = <<>> /\ bytes' = <<>> /\ size' = 0 /\ other' = CompactVectorDefault

Get ==
    /\ status = "ok"
    /\ \E p \in 0..(cv.len - 1) :
        /\ pos' = p
        /\ ret' = get(cv, p)
    /\ op' = "get" /\ value' = 0
    /\ NoSink
    /\ UNCHANGED <<cv, twin, ctor, status>>

Set ==
    /\ status = "ok"
    /\ \E p \in 0..(cv.len - 1), x \in Values :
        /\ pos' = p /\ value' = x
        /\ cv' = set(cv, p, x)
        /\ twin' = set(twin, p, x)
    /\ op' = "set" /\ ret' = 0
    /\ NoSink
    /\ UNCHANGED <<ctor, status>>

Push ==
    /\ status = "ok"
    /\ cv.len < MaxLen
    /\ \E x \in Values :
        /\ value' = x
        /\ cv' = push(cv, x)
        /\ twin' = push(twin, x)
    /\ op' = "push" /\ pos' = 0 /\ ret' = 0
    /\ NoSink
    /\ UNCHANGED <<ctor, status>>

\* get / set with pos >= len: neither checks the position; the store's
\* precondition offset + width <= bit_length is broken, and the call either
\* aborts or goes on silently, depending on the build and the position.
GetOutOfBounds ==
    /\ status = "ok"
    /\ \E p \in cv.len..MaxLen : pos' = p
    /\ status' \in {"panic", "undefined"}
    /\ op' = "get" /\ value' = 0 /\ ret' = 0
    /\ NoSink
    /\ UNCHANGED <<cv, twin, ctor>>

SetOutOfBounds ==
    /\ status = "ok"
    /\ \E p \in cv.len..MaxLen, x \in Values : pos' = p /\ value' = x
    /\ status' \in {"panic", "undefined"}
    /\ op' = "set" /\ ret' = 0
    /\ NoSink
    /\ UNCHANGED <<cv, twin, ctor>>

SerializeInto ==
    /\ status = "ok"
    /\ bytes' = serialize_into(cv).bytes
    /\ size' = serialize_into(cv).size
    /\ other' = CompactVectorDefault
    /\ op' = "serialize_into" /\ pos' = 0 /\ value' = 0 /\ ret' = 0
    /\ ints' = <<>>
    /\ UNCHANGED <<cv, twin, ctor, status>>

\* reads the sink the last serialize_into filled
DeserializeFrom ==
    /\ status = "ok"
    /\ bytes # <<>>
    /\ other' = deserialize_from(bytes)
    /\ op' = "deserialize_from"
    /\ UNCHANGED <<cv, twin, ctor, status, pos, value, ints, ret, bytes, size>>

Next ==
    \/ Get
    \/ Set
    \/ Push
    \/ GetOutOfBounds
    \/ SetOutOfBounds
    \/ SerializeInto
    \/ DeserializeFrom

Spec == Init /\ [][Next]_vars

\* ---- properties ---------------------------------------------------------

\* C1: a vector built by from_slice from a non-empty slice has the slice's
\* length and returns the slice's integer at every position.
C1_RoundTrip ==
    (op = "from_slice" /\ status = "ok") =>
        /\ len(cv) = Len(ints)
        /\ \A i \in 0..(Len(ints) - 1) : get(cv, i) = ints[i + 1]

C1_Witness ==
    op = "from_slice" /\ status = "ok" /\ ints = <<1, 4, 0>> /\ len(cv) = 3

\* C2: in every state reached from a constructor by in-bounds set and push
\* calls, the store holds exactly len * width bits.
C2_BitLength == bit_length(cv.chunks) = len(cv) * width(cv)

C2_Witness ==
    /\ ctor = "with_capacity" /\ op = "push"
    /\ len(cv) = 3 /\ width(cv) = 1 /\ bit_length(cv.chunks) = 3

\* C3: the width from_slice computes is sufficient for the largest integer
\* of the slice, and minimal when that integer is not zero.
C3_WidthSufficient ==
    (op = "from_slice" /\ status = "ok") =>
        /\ SeqMax(ints) < Pow2(width(cv))
        /\ (width(cv) > 0 /\ SeqMax(ints) # 0) =>
               Pow2(width(cv) - 1) <= SeqMax(ints)

C3_Witness ==
    op = "from_slice" /\ status = "ok" /\ ints = <<0, 4>> /\ width(cv) = 3

\* C4: the count serialize_into returns is the number of bytes written, the
\* last 16 bytes are len and width as little-endian u64, and
\* deserialize_from of those bytes is a vector equal to the serialized one.
C4_Serialize ==
    /\ op \in {"serialize_into", "deserialize_from"} =>
        /\ size = Len(bytes)
        /\ Len(bytes) >= 16
        /\ read_u64(SubSeq(bytes, Len(bytes) - 15, Len(bytes) - 8)) = len(cv)
        /\ read_u64(SubSeq(bytes, Len(bytes) - 7, Len(bytes))) = width(cv)
    /\ op = "deserialize_from" =>
        /\ CompactVectorEq(other, cv)
        /\ len(other) = len(cv) /\ width(other) = width(cv)
        /\ \A p \in 0..(len(cv) - 1) : get(other, p) = get(cv, p)

C4_Witness ==
    /\ op = "deserialize_from" /\ len(cv) = 3 /\ width(cv) = 2
    /\ get(cv, 0) = 1 /\ get(cv, 2) = 3 /\ other # CompactVectorDefault

\* C5: push adds exactly one to len and leaves width alone; set leaves both
\* alone; no call ever changes width.
C5_LenWidthStable ==
    [][/\ (op' = "push" => len(cv') = len(cv) + 1 /\ width(cv') = width(cv))
       /\ (op' = "set" => len(cv') = len(cv) /\ width(cv') = width(cv))
       /\ width(cv') = width(cv)]_vars

C5_Witness == op = "push" /\ len(cv) = 3 /\ width(cv) = 1 /\ ctor = "new"

\* C6: from_slice on an empty slice reports an EmptyInputError to the caller
\* and does not abort.
C6_EmptyInputReported ==
    (op = "from_slice" /\ ints = <<>>) => status = "EmptyInputError"

\* C7: get or set with pos >= len is reported as an OutOfBoundsError and
\* leaves the vector as it was.
C7_OutOfBoundsReported ==
    [][(op' \in {"get", "set"} /\ pos' >= len(cv)) =>
           status' = "OutOfBoundsError" /\ cv' = cv]_vars

\* C8: every stored element is below 2^width, and a set or push stores the
\* value modulo 2^width.
C8_Truncated ==
    /\ \A p \in 0..(len(cv) - 1) : get(cv, p) < Pow2(width(cv))
    /\ (op = "set" /\ status = "ok") => get(cv, pos) = value % Pow2(width(cv))
    /\ op = "push" => get(cv, len(cv) - 1) = value % Pow2(width(cv))

C8_Witness ==
    /\ op = "set" /\ status = "ok" /\ value = 3 /\ width(cv) = 1
    /\ pos = 1 /\ get(cv, 1) = 1

\* what a caller can see of a vector
Observe(v) ==
    [len |-> len(v), width |-> width(v), empty |-> is_empty(v),
     ints |-> Ints(v), bytes |-> serialize_into(v).bytes,
     size |-> serialize_into(v).size]

\* C9: with_capacity yields an empty vector, and after the same calls a
\* vector started by with_capacity(n, w) cannot be told from one started by
\* new(w).
C9_CapacityTransparent ==
    /\ op = "with_capacity" => len(cv) = 0
    /\ ctor = "with_capacity" =>
        /\ Observe(cv) = Observe(twin)
        /\ CompactVectorEq(cv, twin)

C9_Witness ==
    /\ ctor = "with_capacity" /\ op = "push" /\ len(cv) = 1 /\ width(cv) = 1
    /\ cv.chunks.capa # twin.chunks.capa

\* C10: set changes the element at pos and no other, push appends and
\* changes no earlier element, and a vector from with_len reads zero
\* everywhere.
C10_PositionLocal ==
    [][/\ (op' = "set" /\ status' = "ok") =>
            /\ get(cv', pos') = value' % Pow2(width(cv))
            /\ \A q \in 0..(len(cv) - 1) :
                   q # pos' => get(cv', q) = get(cv, q)
       /\ op' = "push" =>
            /\ get(cv', len(cv)) = value' % Pow2(width(cv))
            /\ \A q \in 0..(len(cv) - 1) : get(cv', q) = get(cv, q)
       /\ op = "with_len" => \A q \in 0..(len(cv) - 1) : get(cv, q) = 0]_vars

C10_Witness ==
    /\ op = "set" /\ status = "ok" /\ len(cv) = 3 /\ pos = 1
    /\ get(cv, 0) = 3 /\ get(cv, 1) = 2 /\ get(cv, 2) = 1

====
